---- MODULE Spec2Model ----
(***************************************************************************)
(* warmo1/eonha: E.ON Next consumption pipeline.                           *)
(*                                                                         *)
(* Time is counted in half-hour slots (one interval reading per slot).    *)
(* An ISO-8601 timestamp string "YYYY-MM-DDTHH:MM:SS+hh:00" is the record  *)
(* [wall, off]: the wall-clock part as a slot number and the UTC offset   *)
(* in slots; the instant it denotes is wall - off.  Strings are compared  *)
(* as Python compares them: wall-clock text first, then the offset text.  *)
(***************************************************************************)
EXTENDS Integers, Sequences, FiniteSets, TLC

\* ------------------------------------------------------------------ bounds
\* Instants of readings are the slots 0..MaxSlot.
MaxSlot == 2
\* Reading values are 1..MaxVal (energy units).
MaxVal == 2
\* A series handed to the importer holds at most MaxLen readings.
MaxLen == 2
\* Readings the primary source returns per page ("first: 100" in the query).
PageSize == 2
\* The response lists the target meter under at most MaxListings agreements.
MaxListings == 2
\* page_count is kept modulo PageCountMod (it only feeds progress_callback).
PageCountMod == 3
\* A Glowmarkt response holds at most MaxGlow readings.
MaxGlow == 1
\* Distinct tokens and expiry times a login response can carry.
MaxToken == 2

\* ------------------------------------------------------- program constants
\* timedelta(hours=1) in half-hour slots.
SlotsPerHour == 2
\* timedelta(days=365) in half-hour slots.
Lookback == 17520
\* timedelta(minutes=30): one reading interval.
Interval == 1
\* timedelta(days=2) in half-hour slots.
TwoDays == 96
\* timedelta(hours=24) in half-hour slots.
Day == 48
\* Default of backfill_days.
DefaultBackfill == 90

Slots == 0..MaxSlot
Values == 1..MaxVal
\* UTC offsets a timestamp string can carry: +00:00 and +01:00.
Offsets == {0, SlotsPerHour}

VARIABLES
    \* ---- persisted statistics store of one statistic identity
    store,            \* hour_start -> sum
    \* ---- locals of the last _async_import_historical_stats call
    hourly_data,      \* hour_start -> value
    checkpoint,       \* running_sum after the look-back query
    existing_hours,   \* hours found in the bucket range
    running_sum,      \* running_sum after the walk
    statistics,       \* emitted points, in order
    store_calls       \* the calls the last import made on the store, in order

importVars == <<store, hourly_data, checkpoint, existing_hours, running_sum, statistics,
                store_calls>>

VARIABLES
    \* ---- environment of one get_consumption_data call
    now,              \* the instant of datetime.now() (window.end)
    host_off,         \* UTC offset of the host's local time
    london_off,       \* UTC offset the primary source writes in its strings
    feed,             \* readings the source holds from startDate on, in page order
    listings,         \* agreements of a response that list the target meter
    response,         \* kind of the last response received
    \* ---- locals of get_consumption_data
    fetch_pc,         \* "idle", "loop", "returned", "raised"
    end_str,
    cursor,           \* 0 is None
    has_next_page,
    consumption_data,
    page_count

fetchVars == <<now, host_off, london_off, feed, listings, response,
               fetch_pc, end_str, cursor, has_next_page, consumption_data, page_count>>

VARIABLES
    \* ---- EonNextDataUpdateCoordinator and its API client
    token_valid,      \* api._is_token_valid()
    glow_username,    \* configured or not
    glow_password,
    backfill_days,
    target_statistic_id, \* the override statistic identity, or NoTarget
    data,             \* data["meters"]
    last_update_success,
    \* ---- locals of _async_update_data
    cycle_pc,         \* "idle", "meters"
    days_to_fetch,
    todo,             \* meters of the account still to process
    all_meter_data,
    glow_start,       \* of the last Glowmarkt merge: [instant, aware]
    \* ---- locals of the loop body, as the last iteration left them
    meter,            \* id of the meter, "none" before the first iteration
    start_date,       \* start of the fetch window
    primary_consumption, \* consumption, sorted, before the merge
    glow_outcome,     \* "skipped", "raised" or how the service behaved
    requests,         \* kinds of request sent to the primary source this cycle
    login_outcome,    \* what api.login did in the session check, or "none"
    \* ---- EonNextConsumptionSensor entities, by meter serial
    entities_enabled, \* FALSE: the user has disabled the entities, no listener
    sensors,          \* serials with an entity (created after the first refresh)
    native_value,     \* <<>> (None) or <<value>>
    last_reading_time,\* <<>> or <<instant>>
    import_task,      \* the consumption_list of the last import task created
    import_identity   \* <<>> or <<statistic_id of that task>>

stepVars == <<meter, start_date, primary_consumption, glow_outcome, requests, login_outcome>>

sensorVars == <<entities_enabled, sensors, native_value, last_reading_time, import_task,
                import_identity>>

cycleVars == <<token_valid, glow_username, glow_password, backfill_days, target_statistic_id, data,
               last_update_success, cycle_pc, days_to_fetch, todo, all_meter_data,
               glow_start, stepVars, sensorVars>>

VARIABLES
    \* ---- one application of the merge and of the hourly aggregation
    series,           \* the meter's series handed in
    secondary,        \* the Glowmarkt readings handed to the merge
    merged,           \* consumption after the merge
    buckets_out,      \* hourly_data after the aggregation
    law_pc            \* "input", "merged", "aggregated"

lawVars == <<series, secondary, merged, buckets_out, law_pc>>

VARIABLES
    \* ---- EonNextAPI session fields and the last login call
    auth_token,       \* None or a token
    refresh_token,
    token_expires,
    refresh_expires,
    login_response,   \* the response the last login call received
    login_result      \* "none", "true", "false" or the message "Login failed"

authVars == <<auth_token, refresh_token, token_expires, refresh_expires,
              login_response, login_result>>

VARIABLES
    \* ---- async_setup_entry of the integration
    entry,            \* the config entry: [data, options]
    coordinator,      \* the fields of the coordinator it built
    setup_result,     \* "none", "true" or "false"
    flow_result       \* "none", "form" or "create_entry": the flow's last answer

setupVars == <<entry, coordinator, setup_result, flow_result>>

vars == <<importVars, fetchVars, cycleVars, lawVars, authVars, setupVars>>

\* ------------------------------------------------------------ timestamps
MkTS(instant, off) == [wall |-> instant + off, off |-> off]
\* datetime.fromisoformat(s): the aware datetime; its instant.
Instant(ts) == ts.wall - ts.off
\* Python str <= on two timestamp strings of the same layout.
StrLE(a, b) == a.wall < b.wall \/ (a.wall = b.wall /\ a.off <= b.off)

EmptyMap == [x \in {} |-> 0]

Min(S) == CHOOSE x \in S : \A y \in S : x <= y
Max(S) == CHOOSE x \in S : \A y \in S : y <= x

\* sorted(keys)
RECURSIVE Sorted(_)
Sorted(S) == IF S = {} THEN <<>> ELSE <<Min(S)>> \o Sorted(S \ {Min(S)})

\* ------------------------------------------------------ hourly aggregation
\* The start taken as it is, minutes kept.
HourStartNoRound(ts) == Instant(ts)

\* start_dt.replace(minute=0, second=0, microsecond=0): same offset, wall
\* clock rounded down; the dict key is the aware datetime, i.e. its instant.
HourStart(ts) == Instant([wall |-> (ts.wall \div SlotsPerHour) * SlotsPerHour, off |-> ts.off])

\* The aggregation with "=" in place of "+=".
RECURSIVE AggregateAssign(_, _)
AggregateAssign(list, acc) ==
    IF list = <<>> THEN acc
    ELSE LET record == Head(list)
             hour_start == HourStart(record.startAt)
         IN AggregateAssign(Tail(list),
                [h \in DOMAIN acc \cup {hour_start} |->
                    IF h = hour_start THEN record.value ELSE acc[h]])

RECURSIVE Aggregate(_, _)
Aggregate(list, acc) ==
    IF list = <<>> THEN acc
    ELSE LET record == Head(list)
             hour_start == HourStart(record.startAt)
             base == IF hour_start \in DOMAIN acc THEN acc[hour_start] ELSE 0
         IN Aggregate(Tail(list),
                [h \in DOMAIN acc \cup {hour_start} |->
                    IF h = hour_start THEN base + record.value ELSE acc[h]])

\* ------------------------------------------------------- statistics store
\* statistics_during_period(start, end, {id}, "hour", None, {"sum"}):
\* the points with start <= hour < end, ascending.
StatisticsDuringPeriod(st, start_time, end_time) ==
    LET hs == {h \in DOMAIN st : start_time <= h /\ h < end_time}
    IN [i \in 1..Cardinality(hs) |-> [start |-> Sorted(hs)[i], sum |-> st[Sorted(hs)[i]]]]

\* async_import_statistics: every point replaces or creates its hour.
ImportStatistics(st, points) ==
    LET starts == {points[i].start : i \in 1..Len(points)}
    IN [h \in DOMAIN st \cup starts |->
           IF h \in starts
           THEN (CHOOSE p \in {points[i] : i \in 1..Len(points)} : p.start = h).sum
           ELSE st[h]]

\* ------------------------------------------------ cumulative import (sensor)
\* The checkpoint taken from the total the previous call left in memory.
ResolveCheckpointFromMemory(st, sorted_hours) == running_sum

\* running_sum before the walk: sum of the last point of the look-back query.
ResolveCheckpoint(st, sorted_hours) ==
    LET last_stats == StatisticsDuringPeriod(st, sorted_hours[1] - Lookback, sorted_hours[1])
    IN IF last_stats # <<>> THEN last_stats[Len(last_stats)].sum ELSE 0

EndTimeQNoHour(sorted_hours) == sorted_hours[Len(sorted_hours)]

\* end_time_q
EndTimeQ(sorted_hours) == sorted_hours[Len(sorted_hours)] + SlotsPerHour

ExistingHours(st, sorted_hours) ==
    LET existing_in_period == StatisticsDuringPeriod(st, sorted_hours[1], EndTimeQ(sorted_hours))
    IN {existing_in_period[i].start : i \in 1..Len(existing_in_period)}

SkipHourNever(hour_start, existing) == FALSE

\* "if hour_start in existing_hours: continue"
SkipHour(hour_start, existing) == hour_start \in existing

\* The walk with "running_sum += val" after the "continue" of a skipped hour.
RECURSIVE WalkSkipNoAdvance(_, _, _, _)
WalkSkipNoAdvance(sorted_hours, buckets, existing, acc) ==
    IF sorted_hours = <<>> THEN acc
    ELSE LET hour_start == Head(sorted_hours)
             rs == acc.sum + buckets[hour_start]
         IN WalkSkipNoAdvance(Tail(sorted_hours), buckets, existing,
                 IF hour_start \in existing THEN acc
                 ELSE [sum |-> rs,
                       out |-> Append(acc.out, [start |-> hour_start, state |-> rs, sum |-> rs])])

\* The walk over sorted_hours: [sum |-> running_sum, out |-> statistics].
RECURSIVE Walk(_, _, _, _)
Walk(sorted_hours, buckets, existing, acc) ==
    IF sorted_hours = <<>> THEN acc
    ELSE LET hour_start == Head(sorted_hours)
             rs == acc.sum + buckets[hour_start]
         IN Walk(Tail(sorted_hours), buckets, existing,
                 [sum |-> rs,
                  out |-> IF SkipHour(hour_start, existing) THEN acc.out
                          ELSE Append(acc.out, [start |-> hour_start, state |-> rs, sum |-> rs])])

\* The series of one cycle handed to the importer: at most one reading per
\* slot, at most MaxLen readings, ascending, all carrying the offset off.
SeriesOf(f, off) ==
    LET present == {s \in Slots : f[s] # 0}
    IN [i \in 1..Cardinality(present) |->
           [startAt |-> MkTS(Sorted(present)[i], off),
            endAt |-> MkTS(Sorted(present)[i] + Interval, off),
            value |-> f[Sorted(present)[i]],
            src |-> "primary"]]

ImportInputs ==
    {SeriesOf(f, off) :
        f \in {g \in [Slots -> 0..MaxVal] : Cardinality({x \in Slots : g[x] # 0}) <= MaxLen},
        off \in Offsets}

\* The body of _async_import_historical_stats(consumption_list): what it
\* does to its locals and to the store.
ImportCall(consumption_list) ==
    LET buckets == Aggregate(consumption_list, EmptyMap)
    IN IF consumption_list = <<>> \/ DOMAIN buckets = {}
       THEN /\ hourly_data' = EmptyMap
            /\ checkpoint' = 0
            /\ existing_hours' = {}
            /\ running_sum' = 0
            /\ statistics' = <<>>
            /\ store_calls' = <<>>
            /\ UNCHANGED store
       ELSE LET sorted_hours == Sorted(DOMAIN buckets)
                start_sum == ResolveCheckpoint(store, sorted_hours)
                existing == ExistingHours(store, sorted_hours)
                res == Walk(sorted_hours, buckets, existing,
                            [sum |-> start_sum, out |-> <<>>])
            IN /\ hourly_data' = buckets
               /\ checkpoint' = start_sum
               /\ existing_hours' = existing
               /\ running_sum' = res.sum
               /\ statistics' = res.out
               /\ store_calls' = <<"statistics_during_period", "statistics_during_period">>
                                   \o (IF res.out # <<>> THEN <<"async_import_statistics">>
                                       ELSE <<>>)
               /\ store' = IF res.out # <<>> THEN ImportStatistics(store, res.out)
                           ELSE store

\* EonNextConsumptionSensor._async_import_historical_stats(consumption_list)
ImportHistoricalStats(consumption_list) ==
    /\ ImportCall(consumption_list)
    /\ UNCHANGED <<fetchVars, cycleVars, lawVars, authVars, setupVars>>

\* ------------------------------------------ primary source (eon_api.py)
\* src tells the two record shapes apart: a primary node carries
\* "__typename", a Glowmarkt result does not.
MkReading(instant, off, val, src) ==
    [startAt |-> MkTS(instant, off), endAt |-> MkTS(instant + Interval, off),
     value |-> val, src |-> src]

\* end_date.strftime("%Y-%m-%dT%H:%M:%S+00:00") of the naive local
\* datetime.now(): the host's wall clock, written with the text "+00:00".
EndStr(t, hoff) == [wall |-> t + hoff, off |-> 0]

MinOf(a, b) == IF a <= b THEN a ELSE b

\* The page the source returns for a cursor: edges and pageInfo.
Page(fd, cur) ==
    [edges |-> SubSeq(fd, cur + 1, MinOf(cur + PageSize, Len(fd))),
     hasNextPage |-> cur + PageSize < Len(fd),
     endCursor |-> MinOf(cur + PageSize, Len(fd))]

\* "if interval_start <= end_str"
WithinEnd(interval_start, end) == StrLE(interval_start, end)

\* The loop over edges: append up to the first reading past end_str.
RECURSIVE ProcessEdges(_, _, _)
ProcessEdges(edges, acc, end) ==
    IF edges = <<>> THEN [data |-> acc, stopped |-> FALSE]
    ELSE IF WithinEnd(Head(edges).startAt, end)
         THEN ProcessEdges(Tail(edges), Append(acc, Head(edges)), end)
         ELSE [data |-> acc, stopped |-> TRUE]

\* The body run for the meter with the target id of one agreement.
\* st is [data, hnp, cursor]; conn is FALSE when "consumption" is missing.
ProcessMeter(st, page, conn, end) ==
    IF ~conn THEN [st EXCEPT !.hnp = FALSE]
    ELSE LET r == ProcessEdges(page.edges, st.data, end)
         IN [data |-> r.data,
             hnp |-> page.hasNextPage /\ (st.hnp /\ ~r.stopped),
             cursor |-> page.endCursor]

\* "for agreement in agreements": the target meter is met n times.
RECURSIVE ProcessAgreements(_, _, _, _, _)
ProcessAgreements(n, st, page, conn, end) ==
    IF n = 0 THEN st
    ELSE ProcessAgreements(n - 1, ProcessMeter(st, page, conn, end), page, conn, end)

\* Feeds: every ordering of every set of distinct instants.
RECURSIVE Perms(_)
Perms(S) ==
    IF S = {} THEN {<<>>}
    ELSE UNION {{<<x>> \o p : p \in Perms(S \ {x})} : x \in S}

FeedsOf(off) ==
    {[i \in 1..Len(p) |-> MkReading(p[i], off, 1, "primary")] :
        p \in UNION {Perms(S) : S \in SUBSET Slots}}

\* get_consumption_data up to the first "while has_next_page".
FetchStart ==
    /\ fetch_pc = "idle"
    /\ fetch_pc' = "loop"
    /\ end_str' = EndStr(now, host_off)
    /\ cursor' = 0
    /\ has_next_page' = TRUE
    /\ consumption_data' = <<>>
    /\ page_count' = 0
    /\ UNCHANGED <<now, host_off, london_off, feed, listings, response>>
    /\ UNCHANGED <<importVars, cycleVars, lawVars, authVars, setupVars>>

NextCount(n) == (n % PageCountMod) + 1

\* The token check left out of _graphql_request.
TokenNeverRejected == FALSE

\* _graphql_request(authenticated=True) raises "Authentication token is
\* not valid" before it posts anything.
TokenRejected == ~token_valid

\* One iteration whose request fails: _graphql_request raises (token not
\* valid, transport error, or "not response.is_success").
PageRaises ==
    /\ fetch_pc = "loop"
    /\ response' = IF TokenRejected THEN "not_sent" ELSE "error"
    /\ fetch_pc' = "raised"
    /\ page_count' = NextCount(page_count)
    /\ UNCHANGED <<now, host_off, london_off, feed, listings,
                   end_str, cursor, has_next_page, consumption_data>>
    /\ UNCHANGED <<importVars, cycleVars, lawVars, authVars, setupVars>>

\* What the loop does with a response lacking data/account: "break".
MalformedExit == "returned"

\* One iteration whose response has no "data" or no "account".
PageMalformed ==
    /\ fetch_pc = "loop"
    /\ ~TokenRejected
    /\ response' = "malformed"
    /\ fetch_pc' = MalformedExit
    /\ page_count' = NextCount(page_count)
    /\ UNCHANGED <<now, host_off, london_off, feed, listings,
                   end_str, cursor, has_next_page, consumption_data>>
    /\ UNCHANGED <<importVars, cycleVars, lawVars, authVars, setupVars>>

\* The loop test after a processed page: "while has_next_page".
LoopExit(hnp) == IF hnp THEN "loop" ELSE "returned"

\* One iteration with a well-formed response; conn tells whether the
\* target meter carries a "consumption" connection.
PageOk(conn) ==
    /\ fetch_pc = "loop"
    /\ ~TokenRejected
    /\ LET st == ProcessAgreements(listings,
                    [data |-> consumption_data, hnp |-> has_next_page, cursor |-> cursor],
                    Page(feed, cursor), conn, end_str)
       IN /\ consumption_data' = st.data
          /\ has_next_page' = st.hnp
          /\ cursor' = st.cursor
          /\ fetch_pc' = LoopExit(st.hnp)
    /\ response' = IF conn \/ listings = 0 THEN "ok" ELSE "no_consumption"
    /\ page_count' = NextCount(page_count)
    /\ UNCHANGED <<now, host_off, london_off, feed, listings, end_str>>
    /\ UNCHANGED <<importVars, cycleVars, lawVars, authVars, setupVars>>

\* ------------------------------------------- refresh cycle (coordinator.py)
\* The meters get_meters reports for the account.
Electricity == [id |-> "E", serial |-> "SE", type |-> "electricity"]
Gas == [id |-> "G", serial |-> "SG", type |-> "gas"]
AccountMeters == <<Electricity, Gas>>

\* get_consumption_data run to its end.  The request number at carries the
\* fault ("error": the request raises; "malformed": no data/account); a
\* loop that outlives every page of the feed never ends by itself ("hang").
RECURSIVE FetchLoop(_, _, _, _, _, _, _)
FetchLoop(st, fd, n, end, fault, at, k) ==
    IF ~st.hnp THEN [result |-> "returned", data |-> st.data]
    ELSE IF k = at /\ fault = "error" THEN [result |-> "raised", data |-> <<>>]
    ELSE IF k = at /\ fault = "malformed" THEN [result |-> MalformedExit, data |-> st.data]
    ELSE IF k > Len(fd) + 1 THEN [result |-> "hang", data |-> <<>>]
    ELSE FetchLoop(ProcessAgreements(n, st, Page(fd, st.cursor), TRUE, end),
                   fd, n, end, fault, at, k + 1)

GetConsumptionData(fd, n, end, fault, at) ==
    FetchLoop([data |-> <<>>, hnp |-> TRUE, cursor |-> 0], fd, n, end, fault, at, 1)

\* list.sort(key=lambda x: x['startAt']): stable, by string order.
RECURSIVE InsertByStart(_, _)
InsertByStart(sorted, r) ==
    IF sorted = <<>> THEN <<r>>
    ELSE IF StrLE(Head(sorted).startAt, r.startAt)
         THEN <<Head(sorted)>> \o InsertByStart(Tail(sorted), r)
         ELSE <<r>> \o sorted

RECURSIVE SortByStart(_)
SortByStart(list) ==
    IF list = <<>> THEN <<>>
    ELSE InsertByStart(SortByStart(SubSeq(list, 1, Len(list) - 1)), list[Len(list)])

\* glow_start without the 30 minutes added.
GlowStartNoInterval(consumption, t) ==
    IF consumption = <<>>
    THEN [instant |-> t - TwoDays, aware |-> FALSE]
    ELSE [instant |-> Instant(consumption[Len(consumption)].startAt), aware |-> TRUE]

\* glow_start as the coordinator computes it; a datetime is [instant, aware].
GlowStart(consumption, t) ==
    IF consumption = <<>>
    THEN [instant |-> t - TwoDays, aware |-> FALSE]
    ELSE [instant |-> Instant(consumption[Len(consumption)].startAt) + Interval,
          aware |-> TRUE]

\* The "from" of the readings request: start_time, or the fallback when it
\* lies after end_time.
GlowFrom(start_time, t) ==
    IF start_time.instant > t THEN t - Day ELSE start_time.instant

\* The result records built from the entries [ts, value] of a response.
GlowResults(tss) ==
    [i \in 1..Cardinality(tss) |-> MkReading(Sorted(tss)[i], 0, 1, "glow")]

GlowKinds == {"client_error", "discovery_error", "no_resource", "request_error",
              "handling_error", "ok"}

\* _fetch_glow_data(start_time) against a service that behaves as kind and,
\* when it answers, returns readings at the instants tss.
\* [raised |-> an exception leaves the method, out |-> its result].
FetchGlowData(start_time, t, kind, tss) ==
    IF kind \in {"client_error", "discovery_error", "no_resource"}
    THEN [raised |-> FALSE, out |-> <<>>]
    ELSE IF ~start_time.aware
         THEN [raised |-> TRUE, out |-> <<>>]  \* naive > aware: TypeError
         ELSE IF kind = "request_error" THEN [raised |-> FALSE, out |-> <<>>]
              ELSE IF kind = "handling_error"  \* an entry the loop cannot read
                   THEN [raised |-> TRUE, out |-> <<>>]
                   ELSE [raised |-> FALSE, out |-> GlowResults(tss)]

\* "GLOWMARKT MERGE": extend by the Glowmarkt readings and sort again.
GlowMerge(consumption, glow_data) ==
    IF glow_data # <<>> THEN SortByStart(consumption \o glow_data) ELSE consumption

\* What the service can answer to a request for [from, to].
GlowAnswers(from, to) ==
    {tss \in SUBSET Slots : Cardinality(tss) <= MaxGlow /\ \A ts \in tss : from <= ts /\ ts <= to}

\* ----------------------------------------------- sensor entity (sensor.py)
Serials == {AccountMeters[i].serial : i \in 1..Len(AccountMeters)}

\* coordinator.target_statistic_id when no override is configured (None),
\* and a configured override.
NoTarget == <<>>
Override == <<"sensor", "override">>

\* slugify on the texts the identities are built from.
Slugify(text) ==
    CASE text = "SE" -> "se"
      [] text = "SG" -> "sg"
      [] OTHER -> text

\* _meter_type of the entity of serial.
MeterType(serial) ==
    (CHOOSE m \in {AccountMeters[i] : i \in 1..Len(AccountMeters)} : m.serial = serial).type

\* statistic_id of the entity of serial: the override when one is
\* configured, else sensor.eon_next_{serial}_{type}_history, slugified.
StatisticId(serial) ==
    IF target_statistic_id # NoTarget THEN target_statistic_id
    ELSE <<"sensor", "eon_next", Slugify(serial), Slugify(MeterType(serial)), "history">>

\* next((m for m in data["meters"] if m["info"]["serial"] == serial), None)
\* as <<>> or <<entry>>.
CurrentData(d, serial) ==
    LET hits == {i \in 1..Len(d) : d[i].info.serial = serial}
    IN IF hits = {} THEN <<>> ELSE <<d[Min(hits)]>>

\* latest_end: the latest endAt of the list.
LatestEnd(consumption_list) ==
    Max({Instant(consumption_list[i].endAt) : i \in 1..Len(consumption_list)})

\* latest_end.astimezone(DEFAULT_TIME_ZONE).replace(hour=0, ...): the local
\* midnight before t, as an instant; tz is the offset of the local zone.
LatestDayStart(t, tz) == ((t + tz) \div Day) * Day - tz

\* day_sum: the values of the readings starting on the latest day.  The
\* values are whole, so round(day_sum, 3) leaves them as they are.
RECURSIVE DaySum(_, _)
DaySum(consumption_list, latest_day_start) ==
    IF consumption_list = <<>> THEN 0
    ELSE (IF Instant(Head(consumption_list).startAt) >= latest_day_start
          THEN Head(consumption_list).value ELSE 0)
         + DaySum(Tail(consumption_list), latest_day_start)

\* _handle_coordinator_update of the entity of serial, with data = d:
\* TRUE when it returns before touching anything.
ReturnsEarly(d, serial) ==
    CurrentData(d, serial) = <<>> \/ CurrentData(d, serial)[1].consumption = <<>>

\* The entities whose _handle_coordinator_update runs, given the data
\* the cycle leaves and whether the coordinator calls its listeners.
Handled(d, notify) ==
    {x \in sensors : notify /\ ~ReturnsEarly(d, x)}

\* The effect of the listeners on the entities.
UpdateSensors(d, notify) ==
    LET list(x) == CurrentData(d, x)[1].consumption
    IN /\ native_value' = [x \in Serials |->
              IF x \in Handled(d, notify)
              THEN <<DaySum(list(x), LatestDayStart(LatestEnd(list(x)), host_off))>>
              ELSE native_value[x]]
       /\ last_reading_time' = [x \in Serials |->
              IF x \in Handled(d, notify) THEN <<LatestEnd(list(x))>>
              ELSE last_reading_time[x]]
       /\ import_task' = [x \in Serials |->
              IF x \in Handled(d, notify) THEN list(x) ELSE import_task[x]]
       /\ import_identity' = [x \in Serials |->
              IF x \in Handled(d, notify) THEN <<StatisticId(x)>> ELSE import_identity[x]]

\* -------------------------------------------------- cycle (coordinator.py)
\* The end of a refresh: the coordinator keeps d as data, the entities
\* are created after the first refresh that succeeds (async_setup_entry)
\* and the listeners registered before this refresh are called.
EndCycle(d, success, notify) ==
    /\ data' = d
    /\ last_update_success' = success
    /\ cycle_pc' = "idle"
    /\ todo' = <<>>
    /\ all_meter_data' = <<>>
    /\ UNCHANGED entities_enabled
    /\ sensors' = IF sensors = {} /\ success /\ entities_enabled
                  THEN {d[i].info.serial : i \in 1..Len(d)} ELSE sensors
    /\ UpdateSensors(d, notify)

\* data after a refresh that raised: nothing assigns it.
FailedDataCleared(d) == <<>>

FailedData(d) == d

\* A cycle ends with UpdateFailed.
CycleFails(notify) == EndCycle(FailedData(data), FALSE, notify)

\* api.login gave a session: it stored a token and returned True.
LoginAlwaysTrue(login) == TRUE

LoginTrue(login) == login = "ok"

\* _async_update_data up to the loop over the meters: session check, login,
\* get_account_numbers, days_to_fetch, get_meters.
\* login is what api.login does when the token is not valid: "ok", "false"
\* (no obtainKrakenToken in the response) or "raise"; api tells which of
\* the account and meter requests fails, if any.
CycleStart(login, api, notify) ==
    /\ cycle_pc = "idle"
    /\ (token_valid => login = "ok")
    /\ (sensors = {} => notify)
    /\ token_valid' = (token_valid \/ LoginTrue(login))
    /\ login_outcome' = IF token_valid THEN "none" ELSE login
    /\ meter' = "none"
    /\ start_date' = 0
    /\ primary_consumption' = <<>>
    /\ glow_outcome' = "skipped"
    /\ requests' = (IF token_valid THEN {} ELSE {"login"})
                   \cup (IF token_valid \/ LoginTrue(login) THEN {"accounts"} ELSE {})
                   \cup (IF (token_valid \/ LoginTrue(login)) /\ api # "accounts_fail"
                         THEN {"meters"} ELSE {})
    /\ IF (token_valid \/ LoginTrue(login)) /\ api = "ok"
       THEN /\ days_to_fetch' = IF data = <<>> THEN backfill_days ELSE 2
            /\ cycle_pc' = "meters"
            /\ todo' = AccountMeters
            /\ all_meter_data' = <<>>
            /\ notify
            /\ UNCHANGED <<data, last_update_success, sensorVars>>
       ELSE /\ CycleFails(notify)
            /\ UNCHANGED days_to_fetch
    /\ UNCHANGED <<glow_username, glow_password, backfill_days, target_statistic_id, glow_start>>
    /\ UNCHANGED <<importVars, fetchVars, lawVars, authVars, setupVars>>

\* An exception of the Glowmarkt merge leaves the loop body: never, it is
\* caught and logged.
GlowAbortsOnRaise(g) == g.raised

GlowAborts(g) == FALSE

\* The merge condition without the test of the meter's type.
UsesGlowAnyType(m) == glow_username /\ glow_password

\* The condition of the Glowmarkt merge for the meter m: both credentials
\* set and the meter an electricity meter.
UsesGlow(m) == glow_username /\ glow_password /\ m.type = "electricity"

\* The body of "for meter in meters" for the next meter: fetch, sort,
\* Glowmarkt merge, append.
MeterStep(fault, at, kind, tss, notify) ==
    /\ cycle_pc = "meters"
    /\ todo # <<>>
    /\ (fault = "none" => at = 1)
    /\ (kind # "ok" => tss = {})
    /\ Cardinality(tss) <= MaxGlow
    /\ (sensors = {} => notify)
    /\ LET r == GetConsumptionData(feed, listings, EndStr(now, host_off), fault, at)
           primary == IF token_valid /\ r.result = "returned"
                      THEN SortByStart(r.data) ELSE <<>>
           use_glow == UsesGlow(Head(todo))
           start_time == GlowStart(primary, now)
           g == FetchGlowData(start_time, now, kind, tss)
       IN /\ LET raised == ~token_valid \/ r.result # "returned"
                                \/ (use_glow /\ GlowAborts(g))
             IN /\ requests' = IF raised THEN {} ELSE requests \cup {"consumption"}
                /\ login_outcome' = IF raised THEN "none" ELSE login_outcome
                /\ meter' = IF raised THEN "none" ELSE Head(todo).id
                /\ start_date' = IF raised THEN 0 ELSE now - days_to_fetch * Day
                /\ primary_consumption' = IF raised THEN <<>> ELSE primary
          /\ IF ~token_valid \/ r.result # "returned"
             THEN /\ CycleFails(notify)
                  /\ token_valid' = (token_valid /\ r.result # "hang")
                  /\ kind = "ok" /\ tss = {}
                  /\ glow_outcome' = "skipped"
                  /\ UNCHANGED glow_start
             ELSE /\ IF use_glow
                     THEN /\ tss \in (IF kind = "ok" /\ start_time.aware
                                      THEN GlowAnswers(GlowFrom(start_time, now), now)
                                      ELSE {{}})
                          /\ glow_start' = start_time
                          /\ glow_outcome' = IF g.raised THEN "raised" ELSE kind
                     ELSE /\ kind = "ok" /\ tss = {}
                          /\ glow_outcome' = "skipped"
                          /\ UNCHANGED glow_start
                  /\ IF use_glow /\ GlowAborts(g)
                     THEN CycleFails(notify)
                     ELSE /\ all_meter_data' = Append(all_meter_data,
                                [info |-> Head(todo), account |-> "A",
                                 consumption |-> IF use_glow /\ ~g.raised
                                                 THEN GlowMerge(primary, g.out)
                                                 ELSE primary])
                          /\ todo' = Tail(todo)
                          /\ notify
                          /\ UNCHANGED <<data, last_update_success, cycle_pc, sensorVars>>
                  /\ UNCHANGED token_valid
    /\ UNCHANGED <<glow_username, glow_password, backfill_days, target_statistic_id, days_to_fetch>>
    /\ UNCHANGED <<importVars, fetchVars, lawVars, authVars, setupVars>>

\* "return {"meters": all_meter_data}": the coordinator stores the result
\* and calls its listeners.
CycleReturn ==
    /\ cycle_pc = "meters"
    /\ todo = <<>>
    /\ EndCycle(all_meter_data, TRUE, TRUE)
    /\ meter' = "none"
    /\ start_date' = 0
    /\ primary_consumption' = <<>>
    /\ glow_outcome' = "skipped"
    /\ requests' = {}
    /\ login_outcome' = "none"
    /\ UNCHANGED <<token_valid, glow_username, glow_password, backfill_days, target_statistic_id,
                   days_to_fetch, glow_start>>
    /\ UNCHANGED <<importVars, fetchVars, lawVars, authVars, setupVars>>

\* token_expires passes.
TokenExpires ==
    /\ token_valid
    /\ token_valid' = FALSE
    /\ UNCHANGED <<glow_username, glow_password, backfill_days, target_statistic_id, data,
                   last_update_success, cycle_pc, days_to_fetch, todo,
                   all_meter_data, glow_start, stepVars, sensorVars>>
    /\ UNCHANGED <<importVars, fetchVars, lawVars, authVars, setupVars>>

\* ------------------------------------------- merge and aggregation alone
\* Lines 94-126 of the coordinator as a function of the primary series and
\* the Glowmarkt readings: sort, then extend and sort again.
MergeSeries(consumption, glow_data) ==
    GlowMerge(IF consumption # <<>> THEN SortByStart(consumption) ELSE consumption,
              glow_data)

\* The Glowmarkt readings at the instants tss.
GlowSeries == {GlowResults(tss) : tss \in SUBSET Slots}

\* The merge applied to the inputs drawn.
ApplyMerge ==
    /\ law_pc = "input"
    /\ merged' = MergeSeries(series, secondary)
    /\ law_pc' = "merged"
    /\ UNCHANGED <<series, secondary, buckets_out>>
    /\ UNCHANGED <<importVars, fetchVars, cycleVars, authVars, setupVars>>

\* The aggregation (step 1 of the import) applied to the series drawn.
ApplyAggregate ==
    /\ law_pc = "input"
    /\ buckets_out' = Aggregate(series, EmptyMap)
    /\ law_pc' = "aggregated"
    /\ UNCHANGED <<series, secondary, merged>>
    /\ UNCHANGED <<importVars, fetchVars, cycleVars, authVars, setupVars>>

\* The import applied to the series drawn.
ImportSeries ==
    /\ law_pc = "input"
    /\ ImportCall(series)
    /\ law_pc' = "imported"
    /\ UNCHANGED <<series, secondary, merged, buckets_out>>
    /\ UNCHANGED <<fetchVars, cycleVars, authVars, setupVars>>

\* ------------------------------------------------------ login (eon_api.py)
\* "= None" of the session fields.
None == 0

Tokens == 1..MaxToken

\* What the body of a response holds: an error document, one with an
\* empty "errors" list, something that is no JSON object, "data": null,
\* data without obtainKrakenToken, obtainKrakenToken: null, or
\* obtainKrakenToken with its fields.
Bodies == {"errors", "errors_empty", "not_dict", "data_null", "no_key", "key_null",
           "token_data"}

\* The keys login reads from obtainKrakenToken, in the order it reads them.
TokenKeys == <<"token", "refreshToken", "payload", "refreshExpiresIn">>

\* A response: missing is the first of the keys the token data lacks.
MkResponse(transport, ok, body, missing, t, r, e, x) ==
    [transport |-> transport, is_success |-> ok, body |-> body, missing |-> missing,
     token |-> t, refreshToken |-> r, exp |-> e, refreshExpiresIn |-> x]

NoResponse == MkResponse("none", FALSE, "errors", "none", 1, 1, 1, 1)

Responses ==
    {MkResponse("error", FALSE, "errors", "none", 1, 1, 1, 1)}
    \cup {MkResponse("ok", ok, body, "none", 1, 1, 1, 1) :
              ok \in BOOLEAN, body \in Bodies \ {"token_data"}}
    \cup {MkResponse("ok", ok, "token_data", missing, t, r, e, x) :
              ok \in BOOLEAN,
              missing \in {"none"} \cup {TokenKeys[i] : i \in 1..Len(TokenKeys)},
              t \in Tokens, r \in Tokens, e \in Tokens, x \in Tokens}

\* _graphql_request raises for this response: "if not response.is_success".
GraphqlNeverRaises(resp) == FALSE

GraphqlRaises(resp) == ~resp.is_success

\* The value login stores as auth_token.
StoredRefreshToken(resp) == resp.refreshToken

StoredToken(resp) == resp.token

\* The position in TokenKeys at which reading the token data raises
\* (KeyError, or TypeError on null); Len(TokenKeys) + 1 when it does not.
RaisesAt(resp) ==
    IF resp.body = "key_null" THEN 1
    ELSE IF resp.missing = "none" THEN Len(TokenKeys) + 1
    ELSE CHOOSE i \in 1..Len(TokenKeys) : TokenKeys[i] = resp.missing

\* EonNextAPI.login against a server that answers resp.
Login(resp) ==
    /\ login_response' = resp
    /\ IF resp.transport = "error" \/ GraphqlRaises(resp) \/ resp.body = "data_null"
       THEN /\ login_result' = "Login failed"
            /\ UNCHANGED <<auth_token, refresh_token, token_expires, refresh_expires>>
       ELSE IF resp.body \in {"errors", "errors_empty", "not_dict", "no_key"}
            THEN /\ login_result' = "false"
                 /\ UNCHANGED <<auth_token, refresh_token, token_expires, refresh_expires>>
            ELSE /\ auth_token' = IF RaisesAt(resp) > 1 THEN StoredToken(resp) ELSE auth_token
                 /\ refresh_token' = IF RaisesAt(resp) > 2 THEN resp.refreshToken
                                     ELSE refresh_token
                 /\ token_expires' = IF RaisesAt(resp) > 3 THEN resp.exp ELSE token_expires
                 /\ refresh_expires' = IF RaisesAt(resp) > 4 THEN resp.refreshExpiresIn
                                       ELSE refresh_expires
                 /\ login_result' = IF RaisesAt(resp) > Len(TokenKeys) THEN "true"
                                    ELSE "Login failed"
    /\ UNCHANGED <<importVars, fetchVars, cycleVars, lawVars, setupVars>>

\* The coordinator calls its listeners with the data it holds:
\* _handle_coordinator_update of every entity.
ListenersCalled ==
    /\ cycle_pc = "idle"
    /\ sensors # {}
    /\ UpdateSensors(data, TRUE)
    /\ UNCHANGED <<token_valid, glow_username, glow_password, backfill_days,
                   target_statistic_id, data, last_update_success, cycle_pc,
                   days_to_fetch, todo, all_meter_data, glow_start, stepVars,
                   entities_enabled, sensors>>
    /\ UNCHANGED <<importVars, fetchVars, lawVars, authVars, setupVars>>

\* ------------------------------------------- setup (__init__.py)
\* Every configured value is a text; "absent" is a key the dict lacks and
\* "None" the value None.
ConfigKeys == {"backfill_days", "target_statistic_id", "glow_username", "glow_password"}

\* dict.get(key, default)
Get(dict, key, default) == IF dict[key] # "absent" THEN dict[key] ELSE default

\* entry.options.get(key, entry.data.get(key, default))
Configured(e, key, default) == Get(e.options, key, Get(e.data, key, default))

\* What the user can have entered for a key, in the config or the options flow.
ValuesOf(key) ==
    CASE key = "backfill_days" -> {"absent", "-1", "0", "7", "30"}
      [] key = "target_statistic_id" -> {"absent", "sensor.override"}
      [] key = "glow_username" -> {"absent", "glow_user"}
      [] key = "glow_password" -> {"absent", "glow_secret"}

\* The optional keys of a dict, each absent or set.
Settings ==
    {f \in [ConfigKeys -> UNION {ValuesOf(k) : k \in ConfigKeys}] :
        \A k \in ConfigKeys : f[k] \in ValuesOf(k)}

Entries ==
    {[data |-> [k \in ConfigKeys \cup {"username", "password"} |->
                   IF k = "username" THEN "user"
                   ELSE IF k = "password" THEN "secret" ELSE d[k]],
      options |-> o] :
        d \in Settings, o \in Settings}

\* EonNextDataUpdateCoordinator.__init__(hass, entry, api, username,
\* password, backfill_days, target_statistic_id, glow_username,
\* glow_password): each parameter goes to the field of its name.
NewCoordinator(hass, config_entry, api, username, password, days, target, g_user, g_pass) ==
    [hass |-> hass, config_entry |-> config_entry, api |-> api, username |-> username,
     password |-> password, backfill_days |-> days, target_statistic_id |-> target,
     glow_username |-> g_user, glow_password |-> g_pass]

NoCoordinator ==
    NewCoordinator("None", "None", "None", "None", "None", "None", "None", "None", "None")

NoEntry ==
    [data |-> [k \in ConfigKeys \cup {"username", "password"} |-> "absent"],
     options |-> [k \in ConfigKeys |-> "absent"]]

\* The call of the constructor in async_setup_entry: eight positional
\* arguments, hass first; the ninth parameter takes its default None.
BuildCoordinator(e) ==
    NewCoordinator("hass", "api_client", e.data["username"], e.data["password"],
                   Configured(e, "backfill_days", "90"),
                   Configured(e, "target_statistic_id", "None"),
                   Configured(e, "glow_username", "None"),
                   Configured(e, "glow_password", "None"),
                   "None")

\* async_setup_entry: login, build the coordinator, first refresh, forward
\* to the sensor platform.  login is what api.login does; refresh tells
\* whether the requests of the first refresh succeed.
AsyncSetupEntry(login, refresh) ==
    /\ setup_result = "none"
    /\ IF login # "ok"
       THEN /\ setup_result' = "false"
            /\ UNCHANGED coordinator
       ELSE /\ coordinator' = BuildCoordinator(entry)
            \* _async_update_data calls self.api._is_token_valid()
            /\ setup_result' = IF BuildCoordinator(entry).api = "api_client" /\ refresh = "ok"
                                THEN "true" ELSE "false"
    /\ UNCHANGED <<entry, flow_result>>
    /\ UNCHANGED <<importVars, fetchVars, cycleVars, lawVars, authVars>>

\* ------------------------------------------- config flow (config_flow.py)
\* The number a text of digits denotes.
IntOf == ("-1" :> (0 - 1)) @@ ("0" :> 0) @@ ("7" :> 7) @@ ("30" :> 30) @@ ("90" :> 90)

\* What a form field can be submitted with: backfill_days may also be a
\* value that is no integer.
FormValuesOf(key) ==
    IF key = "backfill_days" THEN ValuesOf(key) \cup {"soon"} ELSE ValuesOf(key)

FormInputs ==
    {f \in [ConfigKeys -> UNION {FormValuesOf(k) : k \in ConfigKeys}] :
        \A k \in ConfigKeys : f[k] \in FormValuesOf(k)}

\* Both forms declare backfill_days as "int" and the other keys as "str":
\* any integer passes, whatever its sign.
SchemaAccepts(user_input) ==
    user_input["backfill_days"] \in {"absent"} \cup DOMAIN IntOf

\* STEP_USER_DATA_SCHEMA applied to the input: backfill_days is the one
\* optional key with a default.
UserData(user_input) ==
    [k \in ConfigKeys \cup {"username", "password"} |->
        IF k = "username" THEN "user"
        ELSE IF k = "password" THEN "secret"
        ELSE IF k = "backfill_days" THEN Get(user_input, k, "90")
        ELSE user_input[k]]

\* The options schema applied to the input: every key defaults to what
\* the entry holds for it, 90 or "" when it holds nothing.
OptionsData(e, user_input) ==
    [k \in ConfigKeys |->
        Get(user_input, k, Configured(e, k, IF k = "backfill_days" THEN "90" ELSE ""))]

\* ConfigFlow.async_step_user with a submitted form: an input the schema
\* rejects shows the form again; otherwise login, and on success the
\* entry is created with the input as its data.
AsyncStepUser(user_input, login) ==
    /\ entry = NoEntry
    /\ IF SchemaAccepts(user_input) /\ login = "ok"
       THEN /\ entry' = [data |-> UserData(user_input), options |-> NoEntry.options]
            /\ flow_result' = "create_entry"
       ELSE /\ flow_result' = "form"
            /\ UNCHANGED entry
    /\ UNCHANGED <<coordinator, setup_result>>
    /\ UNCHANGED <<importVars, fetchVars, cycleVars, lawVars, authVars>>

\* OptionsFlowHandler.async_step_init with a submitted form: an input the
\* schema accepts becomes the entry's options.
OptionsStepInit(user_input) ==
    /\ entry # NoEntry
    /\ IF SchemaAccepts(user_input)
       THEN /\ entry' = [entry EXCEPT !.options = OptionsData(entry, user_input)]
            /\ flow_result' = "create_entry"
       ELSE /\ flow_result' = "form"
            /\ UNCHANGED entry
    /\ UNCHANGED <<coordinator, setup_result>>
    /\ UNCHANGED <<importVars, fetchVars, cycleVars, lawVars, authVars>>

\* ---------------------------------------------------------- specifications
\* The statistics importer alone: an empty store, then any import calls.
ImportInit ==
    /\ store = EmptyMap
    /\ hourly_data = EmptyMap
    /\ checkpoint = 0
    /\ existing_hours = {}
    /\ running_sum = 0
    /\ statistics = <<>>
    /\ store_calls = <<>>
    /\ now = 0
    /\ host_off = 0
    /\ london_off = 0
    /\ feed = <<>>
    /\ listings = 1
    /\ response = "none"
    /\ fetch_pc = "idle"
    /\ end_str = EndStr(0, 0)
    /\ cursor = 0
    /\ has_next_page = TRUE
    /\ consumption_data = <<>>
    /\ page_count = 0
    /\ token_valid = TRUE
    /\ glow_username = FALSE
    /\ glow_password = FALSE
    /\ backfill_days = DefaultBackfill
    /\ data = <<>>
    /\ last_update_success = TRUE
    /\ cycle_pc = "idle"
    /\ days_to_fetch = 0
    /\ todo = <<>>
    /\ all_meter_data = <<>>
    /\ glow_start = [instant |-> 0, aware |-> FALSE]
    /\ series = <<>>
    /\ secondary = <<>>
    /\ merged = <<>>
    /\ buckets_out = EmptyMap
    /\ law_pc = "input"
    /\ meter = "none"
    /\ start_date = 0
    /\ primary_consumption = <<>>
    /\ glow_outcome = "skipped"
    /\ requests = {}
    /\ login_outcome = "none"
    /\ entities_enabled = FALSE
    /\ sensors = {}
    /\ native_value = [x \in Serials |-> <<>>]
    /\ last_reading_time = [x \in Serials |-> <<>>]
    /\ import_task = [x \in Serials |-> <<>>]
    /\ import_identity = [x \in Serials |-> <<>>]
    /\ target_statistic_id = NoTarget
    /\ auth_token = None
    /\ refresh_token = None
    /\ token_expires = None
    /\ refresh_expires = None
    /\ login_response = NoResponse
    /\ login_result = "none"
    /\ entry = NoEntry
    /\ coordinator = NoCoordinator
    /\ setup_result = "none"
    /\ flow_result = "none"

ImportNext == \E c \in ImportInputs : ImportHistoricalStats(c)

SpecImport == ImportInit /\ [][ImportNext]_vars

\* One get_consumption_data call against any source, host and clock.
FetchInit ==
    /\ now \in Slots
    /\ host_off \in Offsets
    /\ london_off \in Offsets
    /\ feed \in FeedsOf(london_off)
    /\ listings \in 0..MaxListings
    /\ response = "none"
    /\ fetch_pc = "idle"
    /\ end_str = EndStr(0, 0)
    /\ cursor = 0
    /\ has_next_page = TRUE
    /\ consumption_data = <<>>
    /\ page_count = 0
    /\ store = EmptyMap
    /\ hourly_data = EmptyMap
    /\ checkpoint = 0
    /\ existing_hours = {}
    /\ running_sum = 0
    /\ statistics = <<>>
    /\ store_calls = <<>>
    /\ token_valid = TRUE
    /\ glow_username = FALSE
    /\ glow_password = FALSE
    /\ backfill_days = DefaultBackfill
    /\ data = <<>>
    /\ last_update_success = TRUE
    /\ cycle_pc = "idle"
    /\ days_to_fetch = 0
    /\ todo = <<>>
    /\ all_meter_data = <<>>
    /\ glow_start = [instant |-> 0, aware |-> FALSE]
    /\ series = <<>>
    /\ secondary = <<>>
    /\ merged = <<>>
    /\ buckets_out = EmptyMap
    /\ law_pc = "input"
    /\ meter = "none"
    /\ start_date = 0
    /\ primary_consumption = <<>>
    /\ glow_outcome = "skipped"
    /\ requests = {}
    /\ login_outcome = "none"
    /\ entities_enabled = FALSE
    /\ sensors = {}
    /\ native_value = [x \in Serials |-> <<>>]
    /\ last_reading_time = [x \in Serials |-> <<>>]
    /\ import_task = [x \in Serials |-> <<>>]
    /\ import_identity = [x \in Serials |-> <<>>]
    /\ target_statistic_id = NoTarget
    /\ auth_token = None
    /\ refresh_token = None
    /\ token_expires = None
    /\ refresh_expires = None
    /\ login_response = NoResponse
    /\ login_result = "none"
    /\ entry = NoEntry
    /\ coordinator = NoCoordinator
    /\ setup_result = "none"
    /\ flow_result = "none"

FetchNext ==
    \/ FetchStart
    \/ PageRaises
    \/ PageMalformed
    \/ \E conn \in BOOLEAN : PageOk(conn)

SpecFetch == FetchInit /\ [][FetchNext]_vars

\* The event loop resumes the coroutine after every await.
FairSpecFetch == FetchInit /\ [][FetchNext]_vars /\ WF_vars(FetchNext)

\* One get_consumption_data call on a session whose token may be missing
\* from the start or expire while the call runs.
SessionInit ==
    /\ now \in Slots
    /\ host_off \in Offsets
    /\ london_off \in Offsets
    /\ feed \in FeedsOf(london_off)
    /\ listings \in 0..MaxListings
    /\ response = "none"
    /\ fetch_pc = "idle"
    /\ end_str = EndStr(0, 0)
    /\ cursor = 0
    /\ has_next_page = TRUE
    /\ consumption_data = <<>>
    /\ page_count = 0
    /\ store = EmptyMap
    /\ hourly_data = EmptyMap
    /\ checkpoint = 0
    /\ existing_hours = {}
    /\ running_sum = 0
    /\ statistics = <<>>
    /\ store_calls = <<>>
    /\ token_valid \in BOOLEAN
    /\ glow_username = FALSE
    /\ glow_password = FALSE
    /\ backfill_days = DefaultBackfill
    /\ data = <<>>
    /\ last_update_success = TRUE
    /\ cycle_pc = "idle"
    /\ days_to_fetch = 0
    /\ todo = <<>>
    /\ all_meter_data = <<>>
    /\ glow_start = [instant |-> 0, aware |-> FALSE]
    /\ series = <<>>
    /\ secondary = <<>>
    /\ merged = <<>>
    /\ buckets_out = EmptyMap
    /\ law_pc = "input"
    /\ meter = "none"
    /\ start_date = 0
    /\ primary_consumption = <<>>
    /\ glow_outcome = "skipped"
    /\ requests = {}
    /\ login_outcome = "none"
    /\ entities_enabled = FALSE
    /\ sensors = {}
    /\ native_value = [x \in Serials |-> <<>>]
    /\ last_reading_time = [x \in Serials |-> <<>>]
    /\ import_task = [x \in Serials |-> <<>>]
    /\ import_identity = [x \in Serials |-> <<>>]
    /\ target_statistic_id = NoTarget
    /\ auth_token = None
    /\ refresh_token = None
    /\ token_expires = None
    /\ refresh_expires = None
    /\ login_response = NoResponse
    /\ login_result = "none"
    /\ entry = NoEntry
    /\ coordinator = NoCoordinator
    /\ setup_result = "none"
    /\ flow_result = "none"

SessionNext ==
    \/ FetchStart
    \/ PageRaises
    \/ PageMalformed
    \/ \E conn \in BOOLEAN : PageOk(conn)
    \/ TokenExpires

SpecSession == SessionInit /\ [][SessionNext]_vars

\* Refresh cycles of one configuration: the source serves every meter the
\* ascending feed, under the same number of agreements; the feed has
\* readings before, at and after the time of the fetch.  The user has
\* disabled the entities.
AscendingFeeds(off) ==
    {[i \in 1..Cardinality(S) |-> MkReading(Sorted(S)[i], off, 1, "primary")] :
        S \in SUBSET Slots}

CycleInit ==
    /\ now = MaxSlot - 1
    /\ host_off \in Offsets
    /\ london_off \in Offsets
    /\ feed \in AscendingFeeds(london_off)
    /\ listings \in 0..MaxListings
    /\ glow_username \in BOOLEAN
    /\ glow_password \in BOOLEAN
    /\ token_valid = TRUE
    /\ backfill_days = DefaultBackfill
    /\ data = <<>>
    /\ last_update_success = TRUE
    /\ cycle_pc = "idle"
    /\ days_to_fetch = 0
    /\ todo = <<>>
    /\ all_meter_data = <<>>
    /\ glow_start = [instant |-> 0, aware |-> FALSE]
    /\ response = "none"
    /\ fetch_pc = "idle"
    /\ end_str = EndStr(0, 0)
    /\ cursor = 0
    /\ has_next_page = TRUE
    /\ consumption_data = <<>>
    /\ page_count = 0
    /\ store = EmptyMap
    /\ hourly_data = EmptyMap
    /\ checkpoint = 0
    /\ existing_hours = {}
    /\ running_sum = 0
    /\ statistics = <<>>
    /\ store_calls = <<>>
    /\ series = <<>>
    /\ secondary = <<>>
    /\ merged = <<>>
    /\ buckets_out = EmptyMap
    /\ law_pc = "input"
    /\ meter = "none"
    /\ start_date = 0
    /\ primary_consumption = <<>>
    /\ glow_outcome = "skipped"
    /\ requests = {}
    /\ login_outcome = "none"
    /\ entities_enabled = FALSE
    /\ sensors = {}
    /\ native_value = [x \in Serials |-> <<>>]
    /\ last_reading_time = [x \in Serials |-> <<>>]
    /\ import_task = [x \in Serials |-> <<>>]
    /\ import_identity = [x \in Serials |-> <<>>]
    /\ target_statistic_id = NoTarget
    /\ auth_token = None
    /\ refresh_token = None
    /\ token_expires = None
    /\ refresh_expires = None
    /\ login_response = NoResponse
    /\ login_result = "none"
    /\ entry = NoEntry
    /\ coordinator = NoCoordinator
    /\ setup_result = "none"
    /\ flow_result = "none"

Faults == {"none", "error", "malformed"}

CycleNext ==
    \/ \E login \in {"ok", "false", "raise"},
          api \in {"ok", "accounts_fail", "meters_fail"}, notify \in BOOLEAN :
           CycleStart(login, api, notify)
    \/ \E fault \in Faults, at \in 1..2, kind \in GlowKinds, tss \in SUBSET Slots,
          notify \in BOOLEAN :
           MeterStep(fault, at, kind, tss, notify)
    \/ CycleReturn
    \/ TokenExpires

SpecCycle == CycleInit /\ [][CycleNext]_vars

\* Refresh cycles with the sensor entities listening: one agreement, no
\* Glowmarkt account, with and without an override statistic identity.
ReadoutInit ==
    /\ now = MaxSlot - 1
    /\ host_off \in Offsets
    /\ london_off = 0
    /\ feed \in AscendingFeeds(0)
    /\ listings = 1
    /\ glow_username = FALSE
    /\ glow_password = FALSE
    /\ token_valid = TRUE
    /\ backfill_days = DefaultBackfill
    /\ data = <<>>
    /\ last_update_success = TRUE
    /\ cycle_pc = "idle"
    /\ days_to_fetch = 0
    /\ todo = <<>>
    /\ all_meter_data = <<>>
    /\ glow_start = [instant |-> 0, aware |-> FALSE]
    /\ response = "none"
    /\ fetch_pc = "idle"
    /\ end_str = EndStr(0, 0)
    /\ cursor = 0
    /\ has_next_page = TRUE
    /\ consumption_data = <<>>
    /\ page_count = 0
    /\ store = EmptyMap
    /\ hourly_data = EmptyMap
    /\ checkpoint = 0
    /\ existing_hours = {}
    /\ running_sum = 0
    /\ statistics = <<>>
    /\ store_calls = <<>>
    /\ series = <<>>
    /\ secondary = <<>>
    /\ merged = <<>>
    /\ buckets_out = EmptyMap
    /\ law_pc = "input"
    /\ meter = "none"
    /\ start_date = 0
    /\ primary_consumption = <<>>
    /\ glow_outcome = "skipped"
    /\ requests = {}
    /\ login_outcome = "none"
    /\ entities_enabled = TRUE
    /\ sensors = {}
    /\ native_value = [x \in Serials |-> <<>>]
    /\ last_reading_time = [x \in Serials |-> <<>>]
    /\ import_task = [x \in Serials |-> <<>>]
    /\ import_identity = [x \in Serials |-> <<>>]
    /\ target_statistic_id \in {NoTarget, Override}
    /\ auth_token = None
    /\ refresh_token = None
    /\ token_expires = None
    /\ refresh_expires = None
    /\ login_response = NoResponse
    /\ login_result = "none"
    /\ entry = NoEntry
    /\ coordinator = NoCoordinator
    /\ setup_result = "none"
    /\ flow_result = "none"

SpecReadout == ReadoutInit /\ [][CycleNext]_vars

\* A store that holds one point, as the import of one reading leaves it.
StoredPoint == [h \in {0} |-> 1]

\* The readout at the end of a day: a cycle run at midnight UTC has stored
\* a series of the last half hours before it, and the entities exist.
EveningSlots == (Day - MaxSlot - 1)..(Day - 1)

EveningSeries(off) ==
    {LET present == {x \in EveningSlots : f[x] # 0}
     IN [i \in 1..Cardinality(present) |->
            MkReading(Sorted(present)[i], off, f[Sorted(present)[i]], "primary")] :
        f \in [EveningSlots -> 0..MaxVal]}

DayEndInit ==
    /\ now = Day
    /\ host_off \in Offsets
    /\ london_off \in Offsets
    /\ feed = <<>>
    /\ listings = 1
    /\ glow_username = FALSE
    /\ glow_password = FALSE
    /\ token_valid = TRUE
    /\ backfill_days = DefaultBackfill
    /\ data \in {<<[info |-> Electricity, account |-> "A", consumption |-> c],
                    [info |-> Gas, account |-> "A", consumption |-> <<>>]>> :
                      c \in EveningSeries(london_off)}
    /\ last_update_success = TRUE
    /\ cycle_pc = "idle"
    /\ days_to_fetch = 0
    /\ todo = <<>>
    /\ all_meter_data = <<>>
    /\ glow_start = [instant |-> 0, aware |-> FALSE]
    /\ response = "none"
    /\ fetch_pc = "idle"
    /\ end_str = EndStr(0, 0)
    /\ cursor = 0
    /\ has_next_page = TRUE
    /\ consumption_data = <<>>
    /\ page_count = 0
    /\ store = EmptyMap
    /\ hourly_data = EmptyMap
    /\ checkpoint = 0
    /\ existing_hours = {}
    /\ running_sum = 0
    /\ statistics = <<>>
    /\ store_calls = <<>>
    /\ series = <<>>
    /\ secondary = <<>>
    /\ merged = <<>>
    /\ buckets_out = EmptyMap
    /\ law_pc = "input"
    /\ meter = "none"
    /\ start_date = 0
    /\ primary_consumption = <<>>
    /\ glow_outcome = "skipped"
    /\ requests = {}
    /\ login_outcome = "none"
    /\ entities_enabled = TRUE
    /\ sensors = Serials
    /\ native_value = [x \in Serials |-> <<>>]
    /\ last_reading_time = [x \in Serials |-> <<>>]
    /\ import_task = [x \in Serials |-> <<>>]
    /\ import_identity = [x \in Serials |-> <<>>]
    /\ target_statistic_id = NoTarget
    /\ auth_token = None
    /\ refresh_token = None
    /\ token_expires = None
    /\ refresh_expires = None
    /\ login_response = NoResponse
    /\ login_result = "none"
    /\ entry = NoEntry
    /\ coordinator = NoCoordinator
    /\ setup_result = "none"
    /\ flow_result = "none"

DayEndNext == ListenersCalled

SpecDayEnd == DayEndInit /\ [][DayEndNext]_vars

\* The merge, the aggregation and the import on any series: ascending
\* without a repeated start, as the source sends them, or any import input;
\* the import runs against an empty store or one that holds a point.
LawInit ==
    /\ series \in UNION {AscendingFeeds(off) : off \in Offsets} \cup ImportInputs
    /\ secondary \in {<<>>, series} \cup GlowSeries
    /\ merged = <<>>
    /\ buckets_out = EmptyMap
    /\ law_pc = "input"
    /\ store \in {EmptyMap, StoredPoint}
    /\ hourly_data = EmptyMap
    /\ checkpoint = 0
    /\ existing_hours = {}
    /\ running_sum = 0
    /\ statistics = <<>>
    /\ store_calls = <<>>
    /\ now = 0
    /\ host_off = 0
    /\ london_off = 0
    /\ feed = <<>>
    /\ listings = 1
    /\ response = "none"
    /\ fetch_pc = "idle"
    /\ end_str = EndStr(0, 0)
    /\ cursor = 0
    /\ has_next_page = TRUE
    /\ consumption_data = <<>>
    /\ page_count = 0
    /\ token_valid = TRUE
    /\ glow_username = FALSE
    /\ glow_password = FALSE
    /\ backfill_days = DefaultBackfill
    /\ data = <<>>
    /\ last_update_success = TRUE
    /\ cycle_pc = "idle"
    /\ days_to_fetch = 0
    /\ todo = <<>>
    /\ all_meter_data = <<>>
    /\ glow_start = [instant |-> 0, aware |-> FALSE]
    /\ meter = "none"
    /\ start_date = 0
    /\ primary_consumption = <<>>
    /\ glow_outcome = "skipped"
    /\ requests = {}
    /\ login_outcome = "none"
    /\ entities_enabled = FALSE
    /\ sensors = {}
    /\ native_value = [x \in Serials |-> <<>>]
    /\ last_reading_time = [x \in Serials |-> <<>>]
    /\ import_task = [x \in Serials |-> <<>>]
    /\ import_identity = [x \in Serials |-> <<>>]
    /\ target_statistic_id = NoTarget
    /\ auth_token = None
    /\ refresh_token = None
    /\ token_expires = None
    /\ refresh_expires = None
    /\ login_response = NoResponse
    /\ login_result = "none"
    /\ entry = NoEntry
    /\ coordinator = NoCoordinator
    /\ setup_result = "none"
    /\ flow_result = "none"

LawNext ==
    \/ ApplyMerge
    \/ ApplyAggregate
    \/ ImportSeries

SpecLaw == LawInit /\ [][LawNext]_vars

\* Login calls on one client, against any responses.
LoginInit ==
    /\ series = <<>>
    /\ secondary = <<>>
    /\ merged = <<>>
    /\ buckets_out = EmptyMap
    /\ law_pc = "input"
    /\ store = EmptyMap
    /\ hourly_data = EmptyMap
    /\ checkpoint = 0
    /\ existing_hours = {}
    /\ running_sum = 0
    /\ statistics = <<>>
    /\ store_calls = <<>>
    /\ now = 0
    /\ host_off = 0
    /\ london_off = 0
    /\ feed = <<>>
    /\ listings = 1
    /\ response = "none"
    /\ fetch_pc = "idle"
    /\ end_str = EndStr(0, 0)
    /\ cursor = 0
    /\ has_next_page = TRUE
    /\ consumption_data = <<>>
    /\ page_count = 0
    /\ token_valid = TRUE
    /\ glow_username = FALSE
    /\ glow_password = FALSE
    /\ backfill_days = DefaultBackfill
    /\ data = <<>>
    /\ last_update_success = TRUE
    /\ cycle_pc = "idle"
    /\ days_to_fetch = 0
    /\ todo = <<>>
    /\ all_meter_data = <<>>
    /\ glow_start = [instant |-> 0, aware |-> FALSE]
    /\ meter = "none"
    /\ start_date = 0
    /\ primary_consumption = <<>>
    /\ glow_outcome = "skipped"
    /\ requests = {}
    /\ login_outcome = "none"
    /\ entities_enabled = FALSE
    /\ sensors = {}
    /\ native_value = [x \in Serials |-> <<>>]
    /\ last_reading_time = [x \in Serials |-> <<>>]
    /\ import_task = [x \in Serials |-> <<>>]
    /\ import_identity = [x \in Serials |-> <<>>]
    /\ target_statistic_id = NoTarget
    /\ auth_token = None
    /\ refresh_token = None
    /\ token_expires = None
    /\ refresh_expires = None
    /\ login_response = NoResponse
    /\ login_result = "none"
    /\ entry = NoEntry
    /\ coordinator = NoCoordinator
    /\ setup_result = "none"
    /\ flow_result = "none"

LoginNext == \E resp \in Responses : Login(resp)

SpecLogin == LoginInit /\ [][LoginNext]_vars

\* The setup of any config entry.
SetupInit ==
    /\ series = <<>>
    /\ secondary = <<>>
    /\ merged = <<>>
    /\ buckets_out = EmptyMap
    /\ law_pc = "input"
    /\ store = EmptyMap
    /\ hourly_data = EmptyMap
    /\ checkpoint = 0
    /\ existing_hours = {}
    /\ running_sum = 0
    /\ statistics = <<>>
    /\ store_calls = <<>>
    /\ now = 0
    /\ host_off = 0
    /\ london_off = 0
    /\ feed = <<>>
    /\ listings = 1
    /\ response = "none"
    /\ fetch_pc = "idle"
    /\ end_str = EndStr(0, 0)
    /\ cursor = 0
    /\ has_next_page = TRUE
    /\ consumption_data = <<>>
    /\ page_count = 0
    /\ token_valid = TRUE
    /\ glow_username = FALSE
    /\ glow_password = FALSE
    /\ backfill_days = DefaultBackfill
    /\ data = <<>>
    /\ last_update_success = TRUE
    /\ cycle_pc = "idle"
    /\ days_to_fetch = 0
    /\ todo = <<>>
    /\ all_meter_data = <<>>
    /\ glow_start = [instant |-> 0, aware |-> FALSE]
    /\ meter = "none"
    /\ start_date = 0
    /\ primary_consumption = <<>>
    /\ glow_outcome = "skipped"
    /\ requests = {}
    /\ login_outcome = "none"
    /\ entities_enabled = FALSE
    /\ sensors = {}
    /\ native_value = [x \in Serials |-> <<>>]
    /\ last_reading_time = [x \in Serials |-> <<>>]
    /\ import_task = [x \in Serials |-> <<>>]
    /\ import_identity = [x \in Serials |-> <<>>]
    /\ target_statistic_id = NoTarget
    /\ auth_token = None
    /\ refresh_token = None
    /\ token_expires = None
    /\ refresh_expires = None
    /\ login_response = NoResponse
    /\ login_result = "none"
    /\ entry \in Entries
    /\ coordinator = NoCoordinator
    /\ setup_result = "none"
    /\ flow_result = "none"

SetupNext ==
    \E login \in {"ok", "false", "raise"}, refresh \in {"ok", "failed"} :
        AsyncSetupEntry(login, refresh)

SpecSetup == SetupInit /\ [][SetupNext]_vars

\* The forms of the integration: no entry yet, then the initial form until
\* it creates the entry, then the options form any number of times.
ConfigFlowInit ==
    /\ series = <<>>
    /\ secondary = <<>>
    /\ merged = <<>>
    /\ buckets_out = EmptyMap
    /\ law_pc = "input"
    /\ store = EmptyMap
    /\ hourly_data = EmptyMap
    /\ checkpoint = 0
    /\ existing_hours = {}
    /\ running_sum = 0
    /\ statistics = <<>>
    /\ store_calls = <<>>
    /\ now = 0
    /\ host_off = 0
    /\ london_off = 0
    /\ feed = <<>>
    /\ listings = 1
    /\ response = "none"
    /\ fetch_pc = "idle"
    /\ end_str = EndStr(0, 0)
    /\ cursor = 0
    /\ has_next_page = TRUE
    /\ consumption_data = <<>>
    /\ page_count = 0
    /\ token_valid = TRUE
    /\ glow_username = FALSE
    /\ glow_password = FALSE
    /\ backfill_days = DefaultBackfill
    /\ data = <<>>
    /\ last_update_success = TRUE
    /\ cycle_pc = "idle"
    /\ days_to_fetch = 0
    /\ todo = <<>>
    /\ all_meter_data = <<>>
    /\ glow_start = [instant |-> 0, aware |-> FALSE]
    /\ meter = "none"
    /\ start_date = 0
    /\ primary_consumption = <<>>
    /\ glow_outcome = "skipped"
    /\ requests = {}
    /\ login_outcome = "none"
    /\ entities_enabled = FALSE
    /\ sensors = {}
    /\ native_value = [x \in Serials |-> <<>>]
    /\ last_reading_time = [x \in Serials |-> <<>>]
    /\ import_task = [x \in Serials |-> <<>>]
    /\ import_identity = [x \in Serials |-> <<>>]
    /\ target_statistic_id = NoTarget
    /\ auth_token = None
    /\ refresh_token = None
    /\ token_expires = None
    /\ refresh_expires = None
    /\ login_response = NoResponse
    /\ login_result = "none"
    /\ entry = NoEntry
    /\ coordinator = NoCoordinator
    /\ setup_result = "none"
    /\ flow_result = "none"

ConfigFlowNext ==
    \/ \E user_input \in FormInputs, login \in {"ok", "false", "raises"} :
          AsyncStepUser(user_input, login)
    \/ \E user_input \in FormInputs : OptionsStepInit(user_input)

SpecConfigFlow == ConfigFlowInit /\ [][ConfigFlowNext]_vars

\* ---------------------------------------------------------------- claims
\* C1: the persisted points of the identity, ordered by hour_start, have a
\* non-decreasing sum after every sequence of import calls.
C1_StoreMonotone ==
    \A h1, h2 \in DOMAIN store : h1 < h2 => store[h1] <= store[h2]

\* C2: an import call made with the buckets of the previous call (whose points
\* are then in the store) emits zero points.
C2_SecondImportWritesNothing ==
    [][(hourly_data # EmptyMap /\ hourly_data' = hourly_data) => statistics' = <<>>]_vars

\* An import found every hour of its buckets in the store, holding exactly
\* the sums these buckets give from its checkpoint, and emitted nothing.
C2_Witness ==
    /\ hourly_data # EmptyMap
    /\ statistics = <<>>
    /\ existing_hours = DOMAIN hourly_data
    /\ Cardinality(DOMAIN hourly_data) > 1
    /\ LET again == Walk(Sorted(DOMAIN hourly_data), hourly_data, {},
                         [sum |-> checkpoint, out |-> <<>>]).out
       IN \A i \in 1..Len(again) : store[again[i].start] = again[i].sum

\* C3: no import step changes or removes a point that is already persisted,
\* and no emitted point carries an hour_start that was already persisted.
C3_ExistingPointsUnchanged ==
    [][/\ \A h \in DOMAIN store : h \in DOMAIN store' /\ store'[h] = store[h]
       /\ \A i \in 1..Len(statistics') : statistics'[i].start \notin DOMAIN store]_vars

\* An import skipped an hour that was persisted and wrote another one.
C3_Witness ==
    /\ existing_hours # {}
    /\ statistics # <<>>
    /\ \E h \in existing_hours : h \in DOMAIN hourly_data /\ store[h] # running_sum

\* Readings of the target meter the source has delivered so far: the pages
\* up to the cursor, when the responses list the target meter at all.
Delivered == IF listings > 0 THEN SubSeq(feed, 1, cursor) ELSE <<>>

\* C4: against a source whose last page reports hasNextPage=false, the
\* call ends (it returns or raises), whatever the pages list.
C4_FetchTerminates == <>(fetch_pc \in {"returned", "raised"})

\* C5: when the call returns, every delivered reading of the target meter
\* whose start is at or before window.end is in the result.
C5_AllWithinEndReturned ==
    fetch_pc = "returned" =>
        \A i \in 1..Len(Delivered) :
            Instant(Delivered[i].startAt) <= now =>
                \E j \in 1..Len(consumption_data) : consumption_data[j] = Delivered[i]

\* C6: no reading of the result starts after window.end.
C6_NoneAfterEnd ==
    \A j \in 1..Len(consumption_data) : Instant(consumption_data[j].startAt) <= now

\* C7: once a well-formed response that lists the target meter under no
\* agreement has been processed, the call has returned the empty result.
C7_NoAgreementsReturnsEmpty ==
    (listings = 0 /\ response = "ok") =>
        (fetch_pc = "returned" /\ consumption_data = <<>>)

\* C8: after a failed request or a malformed response the call has raised;
\* it has not returned a result.
C8_PageFailureRaises ==
    response \in {"error", "malformed"} => fetch_pc = "raised"

\* The series a refresh cycle has stored, one per meter.
StoredSeries == {data[i].consumption : i \in 1..Len(data)}

\* C9: no stored series holds a Glowmarkt reading with the start of a
\* primary reading of that series.
C9_PrimaryWins ==
    \A c \in StoredSeries : \A i, j \in 1..Len(c) :
        (c[i].src = "primary" /\ c[j].src = "glow") =>
            Instant(c[i].startAt) # Instant(c[j].startAt)

\* C10: no stored series holds two readings with the same start.
C10_UniqueStart ==
    \A c \in StoredSeries : \A i, j \in 1..Len(c) :
        i # j => Instant(c[i].startAt) # Instant(c[j].startAt)

\* A series in which no two readings share a start.
NoDuplicateStart(c) ==
    \A i, j \in 1..Len(c) : i # j => Instant(c[i].startAt) # Instant(c[j].startAt)

\* C11: a series without a repeated start merged with itself, or with an
\* empty secondary series, comes out as it went in.
C11_MergeIdempotent ==
    (law_pc = "merged" /\ NoDuplicateStart(series) /\ secondary \in {<<>>, series})
        => merged = series

\* C12: no reading of a stored series ends after the end of the fetch
\* window of its cycle (end_date = now).
C12_EndWithinWindow ==
    \A c \in StoredSeries : \A i \in 1..Len(c) : Instant(c[i].endAt) <= now

RECURSIVE SumValues(_)
SumValues(list) == IF list = <<>> THEN 0 ELSE Head(list).value + SumValues(Tail(list))

RECURSIVE SumBuckets(_, _)
SumBuckets(b, hs) ==
    IF hs = {} THEN 0
    ELSE LET h == CHOOSE x \in hs : TRUE IN b[h] + SumBuckets(b, hs \ {h})

\* C13: the values of the readings of a series and the values of the
\* hourly buckets computed from it have the same sum.
C13_AggregationSumLaw ==
    law_pc = "aggregated" => SumValues(series) = SumBuckets(buckets_out, DOMAIN buckets_out)

\* Two readings of one hour, and a reading of another hour, aggregated.
C13_Witness ==
    /\ law_pc = "aggregated"
    /\ Len(series) = 3
    /\ Cardinality(DOMAIN buckets_out) = 2
    /\ \E h \in DOMAIN buckets_out : buckets_out[h] = 2

\* Readings of meter m are held from an earlier cycle.
HasPriorData(m) ==
    \E i \in 1..Len(data) : data[i].info.id = m /\ data[i].consumption # <<>>

\* C14: each meter is fetched from now - backfill_days when no data of it
\* is held, and from now - 2 days when data of it is held.
C14_WindowPerMeter ==
    (cycle_pc = "meters" /\ meter # "none") =>
        start_date = now - (IF HasPriorData(meter) THEN 2 ELSE backfill_days) * Day

\* C15: when a cycle ends, every series produced in it for a meter whose
\* fetch succeeded is in the result the cycle leaves, whatever happened to
\* the fetch of a sibling meter.
C15_SiblingIsolation ==
    [][(cycle_pc = "meters" /\ cycle_pc' = "idle") =>
          \A i \in 1..Len(all_meter_data) :
              \E j \in 1..Len(data') : data'[j] = all_meter_data[i]]_vars

\* C16: a cycle that finds the session invalid and fails to log in sends
\* no account, meter or consumption request and ends as a failed update.
C16_FailedReauthAborts ==
    [][(cycle_pc = "idle" /\ ~token_valid /\ login_outcome' \in {"false", "raise"}) =>
          /\ requests' \cap {"accounts", "meters", "consumption"} = {}
          /\ ~last_update_success'
          /\ cycle_pc' = "idle"]_vars

\* A cycle has ended at the failed login, with data of an earlier cycle held.
C16_Witness ==
    /\ cycle_pc = "idle"
    /\ login_outcome \in {"false", "raise"}
    /\ requests = {"login"}
    /\ ~last_update_success
    /\ data # <<>>

GlowFailures == (GlowKinds \ {"ok"}) \cup {"raised"}

\* C18: after a failure of the Glowmarkt client, discovery, request or
\* response handling the cycle goes on and the meter's series is the
\* primary result.
C18_SecondaryFailureIsolated ==
    glow_outcome \in GlowFailures =>
        /\ cycle_pc = "meters"
        /\ all_meter_data # <<>>
        /\ all_meter_data[Len(all_meter_data)].info.id = meter
        /\ all_meter_data[Len(all_meter_data)].consumption = primary_consumption

\* An exception of the Glowmarkt code was met with primary readings held.
C18_Witness ==
    /\ glow_outcome = "raised"
    /\ primary_consumption # <<>>
    /\ cycle_pc = "meters"

\* The response is successful and carries data.obtainKrakenToken.
CarriesToken(resp) ==
    resp.transport = "ok" /\ resp.is_success /\ resp.body \in {"key_null", "token_data"}

\* ... and obtainKrakenToken holds token, refreshToken, payload.exp and
\* refreshExpiresIn.
CarriesCompleteToken(resp) ==
    resp.transport = "ok" /\ resp.is_success /\ resp.body = "token_data"
        /\ resp.missing = "none"

SessionStored(resp) ==
    /\ login_result = "true"
    /\ auth_token = resp.token
    /\ refresh_token = resp.refreshToken
    /\ token_expires = resp.exp
    /\ refresh_expires = resp.refreshExpiresIn

\* C19 as stated: after a login whose response was successful and carried
\* data.obtainKrakenToken, login has returned True and the session fields
\* hold the response's values.
C19_LoginStoresToken == CarriesToken(login_response) => SessionStored(login_response)

\* C19: the same for a response whose obtainKrakenToken holds all four
\* fields.
C19_LoginStoresCompleteToken ==
    CarriesCompleteToken(login_response) => SessionStored(login_response)

\* A second login has replaced the token of the first.
C19_Witness ==
    /\ CarriesCompleteToken(login_response)
    /\ login_result = "true"
    /\ auth_token = MaxToken
    /\ refresh_token # auth_token

\* C20: a login whose response is not successful raises "Login failed"
\* and leaves the four session fields as they were.
C20_LoginFailureRaises ==
    [][(login_response'.transport = "ok" /\ ~login_response'.is_success) =>
          /\ login_result' = "Login failed"
          /\ UNCHANGED <<auth_token, refresh_token, token_expires, refresh_expires>>]_vars

\* A login has failed on a non-success response that carried a full
\* token, with a session of an earlier login held.
C20_Witness ==
    /\ login_response.transport = "ok"
    /\ ~login_response.is_success
    /\ login_response.body = "token_data"
    /\ login_response.missing = "none"
    /\ login_result = "Login failed"
    /\ auth_token # None
    /\ auth_token # login_response.token

\* The sum of the most recent point of st before the hour first, no more
\* than the look-back earlier; 0 when there is none.
LastSumBefore(st, first) ==
    LET hs == {h \in DOMAIN st : first - Lookback <= h /\ h < first}
    IN IF hs = {} THEN 0 ELSE st[Max(hs)]

SumUpTo(b, h) == SumBuckets(b, {x \in DOMAIN b : x <= h})

\* C22: after an import, every emitted point has state = sum = checkpoint
\* plus the values of all buckets up to and including its hour, skipped
\* hours included, and the running total is the checkpoint plus the values
\* of all buckets.
C22_RunningTotalAdvances ==
    /\ \A i \in 1..Len(statistics) :
          /\ statistics[i].sum = checkpoint + SumUpTo(hourly_data, statistics[i].start)
          /\ statistics[i].state = statistics[i].sum
    /\ running_sum = checkpoint + SumBuckets(hourly_data, DOMAIN hourly_data)

\* An import skipped an hour that was persisted and emitted a later one.
C22_Witness ==
    \E i \in 1..Len(statistics) :
        \E h \in existing_hours \cap DOMAIN hourly_data :
            /\ h < statistics[i].start
            /\ statistics[i].sum = checkpoint + hourly_data[h] + hourly_data[statistics[i].start]

\* An instant rounded down to the hour.
FloorHour(t) == (t \div SlotsPerHour) * SlotsPerHour

\* The readings of the list that start in the hour beginning at h.
StartingIn(list, h) ==
    LET InHour(r) == h <= Instant(r.startAt) /\ Instant(r.startAt) < h + SlotsPerHour
    IN SelectSeq(list, InHour)

\* C23: after the import of a series, each reading lies in exactly one
\* bucket, the one of its start rounded down to the hour; each bucket's
\* value is the sum of the readings starting in its hour; an empty series
\* gives no bucket and no call on the store.
C23_OneBucketPerReading ==
    law_pc = "imported" =>
        /\ \A i \in 1..Len(series) :
              {h \in DOMAIN hourly_data : StartingIn(<<series[i]>>, h) # <<>>}
                  = {FloorHour(Instant(series[i].startAt))}
        /\ \A h \in DOMAIN hourly_data :
              hourly_data[h] = SumValues(StartingIn(series, h))
        /\ (series = <<>> => (hourly_data = EmptyMap /\ store_calls = <<>>))

\* Two readings of different values imported into one bucket.
C23_Witness ==
    /\ law_pc = "imported"
    /\ \E h \in DOMAIN hourly_data :
          /\ Len(StartingIn(series, h)) = 2
          /\ hourly_data[h] = 1 + MaxVal
    /\ store_calls # <<>>

\* C24: while the call still requests pages, no page so far has delivered
\* a reading of the target meter that starts after window.end.
C24_StopsPastWindowEnd ==
    fetch_pc = "loop" =>
        \A i \in 1..Len(Delivered) : Instant(Delivered[i].startAt) <= now

\* C25: when a cycle returns, an import task has been created for every
\* meter's non-empty series of its result.
C25_EverySeriesImported ==
    [][(cycle_pc = "meters" /\ cycle_pc' = "idle" /\ last_update_success') =>
          \A i \in 1..Len(data') :
              data'[i].consumption # <<>> =>
                  import_task'[data'[i].info.serial] = data'[i].consumption]_vars

\* C26: no two meters have an import task on the same statistic identity.
C26_DistinctIdentities ==
    \A x, y \in Serials :
        (x # y /\ import_identity[x] # <<>> /\ import_identity[y] # <<>>) =>
            import_identity[x] # import_identity[y]

\* The readings of the entry e that came from Glowmarkt.
GlowReadings(e) == SelectSeq(e.consumption, LAMBDA r : r.src = "glow")

\* C27: a Glowmarkt fetch is made only for the electricity meter and only
\* with both credentials configured; the series of a gas meter, and every
\* series when a credential is missing, holds no Glowmarkt reading.
C27_SecondaryOnlyElectricity ==
    /\ glow_outcome # "skipped" =>
          (meter = Electricity.id /\ glow_username /\ glow_password)
    /\ \A e \in {all_meter_data[i] : i \in 1..Len(all_meter_data)}
                 \cup {data[i] : i \in 1..Len(data)} :
          (e.info.type # "electricity" \/ ~glow_username \/ ~glow_password) =>
              GlowReadings(e) = <<>>

\* With both credentials configured the electricity meter's series took a
\* Glowmarkt reading and the gas meter was then processed without a fetch.
C27_Witness ==
    /\ cycle_pc = "meters"
    /\ glow_username /\ glow_password
    /\ meter = Gas.id
    /\ glow_outcome = "skipped"
    /\ Len(all_meter_data) = 2
    /\ GlowReadings(all_meter_data[1]) # <<>>
    /\ all_meter_data[2].consumption # <<>>

\* The last reading of the primary series of the meter just processed.
LastPrimary == primary_consumption[Len(primary_consumption)]

\* C28 as stated: with primary data, the start handed to the Glowmarkt
\* fetch is the end of the last primary reading plus one interval.
C28_SinceIsEndPlusInterval ==
    (glow_outcome # "skipped" /\ primary_consumption # <<>>) =>
        glow_start.instant = Instant(LastPrimary.endAt) + Interval

\* C28: with primary data, the start handed to the Glowmarkt fetch is the
\* start of the last primary reading plus one interval.
C28_SinceIsStartPlusInterval ==
    (glow_outcome # "skipped" /\ primary_consumption # <<>>) =>
        glow_start.instant = Instant(LastPrimary.startAt) + Interval

\* A Glowmarkt fetch was made from the end of the last of two primary
\* readings.
C28_Witness ==
    /\ glow_outcome = "ok"
    /\ Len(primary_consumption) = 2
    /\ glow_start.aware
    /\ glow_start.instant = Instant(LastPrimary.endAt)
    /\ glow_start.instant > Instant(primary_consumption[1].endAt)

\* C29: the coordinator setup has built holds the configured backfill_days
\* (options before data, default 90) and the API client, the credentials,
\* the override statistic identity and the Glowmarkt credentials each in
\* the field of that name.
C29_SetupFillsFields ==
    coordinator # NoCoordinator =>
        /\ coordinator.backfill_days = Configured(entry, "backfill_days", "90")
        /\ coordinator.api = "api_client"
        /\ coordinator.username = entry.data["username"]
        /\ coordinator.password = entry.data["password"]
        /\ coordinator.target_statistic_id = Configured(entry, "target_statistic_id", "None")
        /\ coordinator.glow_username = Configured(entry, "glow_username", "None")
        /\ coordinator.glow_password = Configured(entry, "glow_password", "None")

\* The readings of the list with the greatest end.
LatestReadings(list) ==
    SelectSeq(list, LAMBDA r : Instant(r.endAt) = LatestEnd(list))

\* C30: a sensor's value, computed from a non-empty series, includes the
\* value of the reading of that series with the greatest end.
C30_ValueIncludesLatest ==
    \A x \in Serials :
        (native_value[x] # <<>> /\ import_task[x] # <<>>) =>
            native_value[x][1] >= SumValues(LatestReadings(import_task[x]))

\* C31: an iteration of the fetch made while the token is not valid sends
\* no request and ends the call with an error.
C31_NoRequestWithoutToken ==
    [][(fetch_pc = "loop" /\ ~token_valid /\ page_count' # page_count) =>
          (fetch_pc' = "raised" /\ response' = "not_sent")]_vars

\* The token expired after a page had been appended; the next request was
\* not sent and the call raised.
C31_Witness ==
    /\ fetch_pc = "raised"
    /\ response = "not_sent"
    /\ ~token_valid
    /\ cursor > 0
    /\ consumption_data # <<>>

\* How often x occurs in seq.
Occurrences(seq, x) == Cardinality({i \in DOMAIN seq : seq[i] = x})

\* C32: a reading is in the fetch result no more often than the source
\* delivered it, however many agreements list the target meter.
C32_AppendedAtMostOnce ==
    \A i \in DOMAIN consumption_data :
        Occurrences(consumption_data, consumption_data[i]) <=
            Occurrences(Delivered, consumption_data[i])

\* C33: no entry the forms create holds a backfill_days of 0 or below,
\* in its data or in its options.
C33_NonPositiveRejected ==
    /\ entry.data["backfill_days"] # "absent" => IntOf[entry.data["backfill_days"]] > 0
    /\ entry.options["backfill_days"] # "absent" => IntOf[entry.options["backfill_days"]] > 0

====
